---- MODULE Spec2Model ----
(***************************************************************************)
(* Model of baseband's low-level primitives:                               *)
(*   - vlbi_base/utils.py : bcd_decode, bcd_encode, CRC, get_frame_rate    *)
(*   - vdif/payload.py    : init_luts, encode_2bit, encode_4bit,           *)
(*                          VDIFPayload.__init__, VDIFPayload.fromdata     *)
(* Each subsystem has its own variables and its own specification          *)
(* (SpecCRC, SpecBCD, SpecScan, SpecPayload, SpecCodec); the variables of  *)
(* the other subsystems stay at their idle value.                          *)
(***************************************************************************)
EXTENDS Integers, Sequences, FiniteSets, TLC

VARIABLES
    \* ---- CRC engine and its caller (utils.py, class CRC)
    polynomial,   \* self.polynomial
    pol_bin,      \* self.pol_bin: coefficient bits, most significant first
    dtype,        \* dtype of the caller's stream: "bool" or "uint"
    heap,         \* the arrays: heap.caller is the caller's stream,
                  \* heap.work the array the engine allocated last
    ret,          \* value returned by the last CRC call
    op,           \* last operation on the CRC subsystem
    prov,         \* how the caller's stream came about
    \* ---- BCD codec (utils.py, bcd_decode / bcd_encode)
    bcd_arg,      \* the argument handed to the codec
    bcd_val,      \* the value currently held by the caller
    bcd_stage,    \* "in", "encoded", "roundtrip", "decoded"
    \* ---- frame-rate scan (utils.py, get_frame_rate)
    file,         \* the headers of the file, in file order
    scan,         \* outcome of get_frame_rate on file ("none" before the call)
    \* ---- payload construction (payload.py, VDIFPayload)
    pay_call,     \* the call made, with its arguments
    pay_out,      \* what the call returned or raised
    \* ---- sample codec tables (payload.py, init_luts / encode_*)
    cd_bps,       \* bits per sample of the pattern
    cd_codes,     \* the n-bit codes of one byte (output of the base quantiser)
    cd_byte,      \* outcome of encoding them
    cd_levels     \* outcome of decoding that byte

crcVars == <<polynomial, pol_bin, dtype, heap, ret, op, prov>>
bcdVars == <<bcd_arg, bcd_val, bcd_stage>>
scanVars == <<file, scan>>
payVars == <<pay_call, pay_out>>
codecVars == <<cd_bps, cd_codes, cd_byte, cd_levels>>
vars == <<crcVars, bcdVars, scanVars, payVars, codecVars>>

(***************************************************************************)
(* Bounds of the model.                                                    *)
(***************************************************************************)
\* polynomials 2..MaxPoly are tried besides the two named ones
MaxPoly == 5
\* number of tracks (bits per word) of a multi-track stream
TrackBits == 2
\* length of the data part of a stream handed to the CRC engine
MaxData == 2

(***************************************************************************)
(* Arithmetic helpers.                                                     *)
(***************************************************************************)
RECURSIVE Pow(_, _)
Pow(b, e) == IF e = 0 THEN 1 ELSE b * Pow(b, e - 1)

RECURSIVE BitXor(_, _)
BitXor(a, b) ==
    IF a = 0 THEN b
    ELSE IF b = 0 THEN a
    ELSE (((a % 2) + (b % 2)) % 2) + 2 * BitXor(a \div 2, b \div 2)

RECURSIVE BitAnd(_, _)
BitAnd(a, b) ==
    IF a = 0 \/ b = 0 THEN 0
    ELSE ((a % 2) * (b % 2)) + 2 * BitAnd(a \div 2, b \div 2)

RECURSIVE BitOr(_, _)
BitOr(a, b) ==
    IF a = 0 THEN b
    ELSE IF b = 0 THEN a
    ELSE (IF a % 2 = 1 \/ b % 2 = 1 THEN 1 ELSE 0) + 2 * BitOr(a \div 2, b \div 2)

RECURSIVE SeqsUpTo(_, _)
SeqsUpTo(S, n) ==
    IF n = 0 THEN {<<>>}
    ELSE LET shorter == SeqsUpTo(S, n - 1)
         IN  shorter \cup {Append(s, x) : s \in {t \in shorter : Len(t) = n - 1}, x \in S}

(***************************************************************************)
(* CRC engine: utils.py, class CRC.                                        *)
(***************************************************************************)
\* '{:b}'.format(polynomial): the binary digits, most significant first
RECURSIVE FormatB(_)
FormatB(p) == IF p < 2 THEN <<p>> ELSE Append(FormatB(p \div 2), p % 2)

\* CRC.__init__: pol_bin = [int(bit) for bit in '{:b}'.format(polynomial)]
CRC_init(p) == FormatB(p)

\* CRC.__len__: self.pol_bin.size - 1
CRC_len(pb) == Len(pb) - 1

\* the values one element of a stream of the given dtype can take
Elems(dt) == IF dt = "bool" THEN 0..1 ELSE 0..(Pow(2, TrackBits) - 1)

\* (-self.pol_bin).astype(stream.dtype): -1 becomes True for a boolean
\* stream and the all-ones word for an unsigned one; 0 stays 0
NegAstype(pb, dt) ==
    [k \in 1..Len(pb) |->
        IF dt = "bool" THEN (IF 0 - pb[k] # 0 THEN 1 ELSE 0)
        ELSE (0 - pb[k]) % Pow(2, TrackBits)]

\* one pass of the loop body: stream[i:i+pol_bin.size] ^= (pol_bin & stream[i])
\* (i is the 0-based Python index; the right-hand side reads stream[i] first)
CrcStep(s, mask, i) ==
    [k \in 1..Len(s) |->
        IF k >= i + 1 /\ k <= i + Len(mask) /\ k <= Len(s)
        THEN BitXor(s[k], BitAnd(mask[k - i], s[i + 1]))
        ELSE s[k]]

RECURSIVE CrcLoop(_, _, _, _)
CrcLoop(s, mask, i, stop) ==
    IF i >= stop THEN s ELSE CrcLoop(CrcStep(s, mask, i), mask, i + 1, stop)

\* stream[-n:] of Python: the last n elements, the whole array when it is
\* shorter than n or when n = 0
LastN(s, n) ==
    IF n = 0 \/ n >= Len(s) THEN s ELSE SubSeq(s, Len(s) - n + 1, Len(s))

\* CRC._crc applied to the array at heap[ref]: the array is changed in
\* place (for i in range(0, len(stream) - len(self))) and the function
\* returns the view stream[-len(self):]
CRC_crc_from1(h, ref, pb, dt) ==
    [h EXCEPT ![ref] =
        CrcLoop(h[ref], NegAstype(pb, dt), 1, Len(h[ref]) - CRC_len(pb))]

CRC_crc(h, ref, pb, dt) ==
    [h EXCEPT ![ref] =
        CrcLoop(h[ref], NegAstype(pb, dt), 0, Len(h[ref]) - CRC_len(pb))]

CRC_crc_view(h, ref, pb) == LastN(h[ref], CRC_len(pb))

\* what a CRC call hands back: nothing yet, a CRC (the view), or check's verdict
NoRet == [kind |-> "none", crc |-> <<>>, ok |-> FALSE]

\* np.zeros((len(self),), stream.dtype)
Zeros(n) == [k \in 1..n |-> 0]

\* CRC.__call__: stream = np.hstack((stream, zeros)) is a new array (work);
\* the division runs on it and its tail is returned
CRC_call_short(h, pb, dt) ==
    LET h1 == [h EXCEPT !.work = h.caller \o Zeros(CRC_len(pb) - 1)]
        h2 == CRC_crc(h1, "work", pb, dt)
    IN  [heap |-> h2, value |-> [kind |-> "crc", crc |-> CRC_crc_view(h2, "work", pb), ok |-> FALSE]]

CRC_call(h, pb, dt) ==
    LET h1 == [h EXCEPT !.work = h.caller \o Zeros(CRC_len(pb))]
        h2 == CRC_crc(h1, "work", pb, dt)
    IN  [heap |-> h2, value |-> [kind |-> "crc", crc |-> CRC_crc_view(h2, "work", pb), ok |-> FALSE]]

AllZero(s) == \A k \in 1..Len(s) : s[k] = 0

\* CRC.check: np.all(self._crc(stream.copy()) == 0); the copy is a new
\* array (work) and the division runs on it
CRC_check_nocopy(h, pb, dt) ==
    LET h2 == CRC_crc(h, "caller", pb, dt)
    IN  [heap |-> h2, value |-> [kind |-> "ok", crc |-> <<>>, ok |-> AllZero(CRC_crc_view(h2, "caller", pb))]]

CRC_check(h, pb, dt) ==
    LET h1 == [h EXCEPT !.work = h.caller]
        h2 == CRC_crc(h1, "work", pb, dt)
    IN  [heap |-> h2, value |-> [kind |-> "ok", crc |-> <<>>, ok |-> AllZero(CRC_crc_view(h2, "work", pb))]]

Streams(dt) == SeqsUpTo(Elems(dt), MaxData)

KnownPolys == {98309, 6159}    \* 0x18005 and the Mark 4 polynomial 0x180f
Polys == (2..MaxPoly) \cup KnownPolys

InitCRC ==
    /\ polynomial \in Polys
    /\ pol_bin = CRC_init(polynomial)
    /\ dtype \in {"bool", "uint"}
    /\ \E s \in Streams(dtype) : heap = [caller |-> s, work |-> <<>>]
    /\ ret = NoRet
    /\ op = "new"
    /\ prov = "raw"

IdleCRC ==
    /\ polynomial = 0
    /\ pol_bin = <<>>
    /\ dtype = "none"
    /\ heap = [caller |-> <<>>, work |-> <<>>]
    /\ ret = NoRet
    /\ op = "idle"
    /\ prov = "idle"

\* a call of the engine on the caller's stream: crc = engine(stream)
Compute ==
    /\ op # "idle"
    /\ Len(heap.caller) <= MaxData
    /\ LET r == CRC_call(heap, pol_bin, dtype)
       IN  heap' = r.heap /\ ret' = r.value
    /\ op' = "call"
    /\ UNCHANGED <<polynomial, pol_bin, dtype, prov>>
    /\ UNCHANGED <<bcdVars, scanVars, payVars, codecVars>>

\* the caller appends the CRC it was returned to its stream
AppendCRC ==
    /\ op = "call"
    /\ heap' = [heap EXCEPT !.caller = heap.caller \o ret.crc]
    /\ op' = "append"
    /\ prov' = "appended"
    /\ ret' = NoRet
    /\ UNCHANGED <<polynomial, pol_bin, dtype>>
    /\ UNCHANGED <<bcdVars, scanVars, payVars, codecVars>>

\* a call of engine.check on the caller's stream
Check ==
    /\ op # "idle"
    /\ LET r == CRC_check(heap, pol_bin, dtype)
       IN  heap' = r.heap /\ ret' = r.value
    /\ op' = "check"
    /\ UNCHANGED <<polynomial, pol_bin, dtype, prov>>
    /\ UNCHANGED <<bcdVars, scanVars, payVars, codecVars>>

\* the stream a check has accepted gets exactly one bit flipped
FlipBit ==
    /\ op = "check"
    /\ ret.ok
    /\ \E i \in 1..Len(heap.caller) :
         \E t \in 0..((IF dtype = "bool" THEN 1 ELSE TrackBits) - 1) :
            heap' = [heap EXCEPT !.caller[i] = BitXor(@, Pow(2, t))]
    /\ op' = "flip"
    /\ prov' = "flipped"
    /\ ret' = NoRet
    /\ UNCHANGED <<polynomial, pol_bin, dtype>>
    /\ UNCHANGED <<bcdVars, scanVars, payVars, codecVars>>

NextCRC ==
    \/ Compute
    \/ AppendCRC
    \/ Check
    \/ FlipBit

(***************************************************************************)
(* BCD codec: utils.py, bcd_decode and bcd_encode.                         *)
(***************************************************************************)
\* largest scalar handed to the codec
MaxScalar == 9999
\* a batch has at most MaxBatch elements, drawn from 0..MaxElem and BatchExtra
MaxBatch == 2
MaxElem == 20
BatchExtra == {160, 419, 2457, 4660}    \* 0xa0, 0x1a3, 0x999, 0x1234

\* '{:x}'.format(value) and '{:d}'.format(value): the digits of a
\* non-negative integer in base 16 or 10, most significant first
RECURSIVE Format(_, _)
Format(v, base) ==
    IF v < base THEN <<v>> ELSE Append(Format(v \div base, base), v % base)

\* int(text, base): fails (ValueError) when a digit is not one of the base
IntValid(digits, base) == \A k \in 1..Len(digits) : digits[k] < base

RECURSIVE IntValue(_, _)
IntValue(digits, base) ==
    IF Len(digits) = 0 THEN 0
    ELSE IntValue(SubSeq(digits, 1, Len(digits) - 1), base) * base
         + digits[Len(digits)]

BcdInt(v) == [kind |-> "int", v |-> v, named |-> 0]
BcdArray(a) == [kind |-> "array", v |-> a, named |-> 0]
\* ValueError("Invalid BCD encoded value {0}={1}.".format(value, hex(value)))
BcdError(value) == [kind |-> "error", v |-> 0, named |-> value]

AnyPositive(a) == \E k \in 1..Len(a) : a[k] > 0

\* value[digit > 9][0]: the first element whose current digit exceeds 9
FirstBad(value, digit) ==
    value[CHOOSE k \in 1..Len(digit) :
            /\ digit[k] > 9
            /\ \A j \in 1..(k - 1) : digit[j] <= 9]

\* the array loop of bcd_decode (lines 19-32)
RECURSIVE DecodeLoop(_, _, _, _)
DecodeLoop(value, bcd, factor, result) ==
    IF ~AnyPositive(bcd) THEN BcdArray(result)
    ELSE LET quot == [k \in 1..Len(bcd) |-> bcd[k] \div 16]
             digit == [k \in 1..Len(bcd) |-> bcd[k] % 16]
         IN  IF \E k \in 1..Len(digit) : digit[k] > 9
             THEN BcdError(FirstBad(value, digit))
             ELSE DecodeLoop(value, quot, factor * 10,
                             [k \in 1..Len(bcd) |-> result[k] + digit[k] * factor])

\* the same loop without the test of the digit
RECURSIVE DecodeLoopUnchecked(_, _, _, _)
DecodeLoopUnchecked(value, bcd, factor, result) ==
    IF ~AnyPositive(bcd) THEN BcdArray(result)
    ELSE LET quot == [k \in 1..Len(bcd) |-> bcd[k] \div 16]
             digit == [k \in 1..Len(bcd) |-> bcd[k] % 16]
         IN  DecodeLoopUnchecked(value, quot, factor * 10,
                             [k \in 1..Len(bcd) |-> result[k] + digit[k] * factor])

bcd_decode_unchecked(value) ==
    IF value.kind = "int"
    THEN IF IntValid(Format(value.v, 16), 10)
         THEN BcdInt(IntValue(Format(value.v, 16), 10))
         ELSE BcdError(value.v)
    ELSE DecodeLoopUnchecked(value.v, value.v, 1, [k \in 1..Len(value.v) |-> 0])

\* bcd_decode: a scalar goes through int('{:x}'.format(value)), whose
\* ValueError is re-raised as the invalid-BCD error; for an array the format
\* raises and the loop runs
bcd_decode(value) ==
    IF value.kind = "int"
    THEN IF IntValid(Format(value.v, 16), 10)
         THEN BcdInt(IntValue(Format(value.v, 16), 10))
         ELSE BcdError(value.v)
    ELSE DecodeLoop(value.v, value.v, 1, [k \in 1..Len(value.v) |-> 0])

\* the array loop of bcd_encode (lines 43-50); result starts as the scalar 0
\* and becomes an array with the first pass
RECURSIVE EncodeLoop(_, _, _)
EncodeLoop(value, factor, result) ==
    IF ~AnyPositive(value) THEN result
    ELSE LET quot == [k \in 1..Len(value) |-> value[k] \div 10]
             digit == [k \in 1..Len(value) |-> value[k] % 10]
             sofar == IF result.kind = "int"
                      THEN [k \in 1..Len(value) |-> result.v]
                      ELSE result.v
         IN  EncodeLoop(quot, factor * 16,
                        BcdArray([k \in 1..Len(value) |-> sofar[k] + digit[k] * factor]))

bcd_encode_base10(value) ==
    IF value.kind = "int"
    THEN BcdInt(IntValue(Format(value.v, 10), 10))
    ELSE EncodeLoop(value.v, 1, BcdInt(0))

\* bcd_encode: a scalar goes through int('{:d}'.format(value), base=16);
\* for an array the format raises and the loop runs
bcd_encode(value) ==
    IF value.kind = "int"
    THEN BcdInt(IntValue(Format(value.v, 10), 16))
    ELSE EncodeLoop(value.v, 1, BcdInt(0))

BcdArgs ==
    {BcdInt(v) : v \in 0..MaxScalar}
    \cup {BcdArray(a) : a \in SeqsUpTo((0..MaxElem) \cup BatchExtra, MaxBatch)}

InitBCD ==
    /\ bcd_arg \in BcdArgs
    /\ bcd_val = bcd_arg
    /\ bcd_stage = "in"

IdleBCD ==
    /\ bcd_arg = BcdInt(0)
    /\ bcd_val = BcdInt(0)
    /\ bcd_stage = "idle"

\* the caller encodes its value
Encode ==
    /\ bcd_stage = "in"
    /\ bcd_val' = bcd_encode(bcd_val)
    /\ bcd_stage' = "encoded"
    /\ UNCHANGED bcd_arg
    /\ UNCHANGED <<crcVars, scanVars, payVars, codecVars>>

\* the caller decodes its value: the raw argument, or what encode returned
Decode ==
    /\ bcd_stage \in {"in", "encoded"}
    /\ bcd_val' = bcd_decode(bcd_val)
    /\ bcd_stage' = IF bcd_stage = "in" THEN "decoded" ELSE "roundtrip"
    /\ UNCHANGED bcd_arg
    /\ UNCHANGED <<crcVars, scanVars, payVars, codecVars>>

NextBCD ==
    \/ Encode
    \/ Decode

(***************************************************************************)
(* Frame-rate scan: utils.py, get_frame_rate.                              *)
(***************************************************************************)
\* frame numbers are 0..MaxFrame, a file holds at most MaxHeaders headers,
\* the first header's second is 0..MaxS0
MaxFrame == 3
MaxHeaders == 4
MaxS0 == 1

Header(f, s) == [frame_nr |-> f, seconds |-> s]

ScanNone == [kind |-> "none", value |-> 0, warned |-> FALSE]
\* header_class.fromfile(fh) with no header left to read
ScanEOF == [kind |-> "EOFError", value |-> 0, warned |-> FALSE]
\* assert header['frame_nr'] == 0
ScanAssert == [kind |-> "AssertionError", value |-> 0, warned |-> FALSE]

\* lines 131-133: while header['frame_nr'] == 0, read the next header.
\* Gives the position of the first header with a frame number other than 0,
\* or 0 when the file ends first.
RECURSIVE SkipZeroFrames(_, _)
SkipZeroFrames(f, pos) ==
    IF f[pos].frame_nr # 0 THEN pos
    ELSE IF pos + 1 > Len(f) THEN 0
    ELSE SkipZeroFrames(f, pos + 1)

\* lines 134-142: while header['frame_nr'] > 0, max_frame is assigned the
\* header's frame number and the next header is read; then the warning and
\* the return
RECURSIVE ScanFramesNoPlus(_, _, _, _)
ScanFramesNoPlus(f, pos, max_frame, sec0) ==
    IF f[pos].frame_nr > 0
    THEN IF pos + 1 > Len(f) THEN ScanEOF
         ELSE ScanFramesNoPlus(f, pos + 1, f[pos].frame_nr, sec0)
    ELSE [kind |-> "return", value |-> max_frame,
          warned |-> (f[pos].seconds # sec0 + 1)]

RECURSIVE ScanFrames(_, _, _, _)
ScanFrames(f, pos, max_frame, sec0) ==
    IF f[pos].frame_nr > 0
    THEN IF pos + 1 > Len(f) THEN ScanEOF
         ELSE ScanFrames(f, pos + 1, f[pos].frame_nr, sec0)
    ELSE [kind |-> "return", value |-> max_frame + 1,
          warned |-> (f[pos].seconds # sec0 + 1)]

get_frame_rate_noplus(f) ==
    IF Len(f) = 0 THEN ScanEOF
    ELSE IF f[1].frame_nr # 0 THEN ScanAssert
    ELSE LET pos == SkipZeroFrames(f, 1)
         IN  IF pos = 0 THEN ScanEOF
             ELSE ScanFramesNoPlus(f, pos, 0, f[1].seconds)

\* get_frame_rate(fh, header_class) on a file holding the headers f.
\* max_frame is unbound until the second loop assigns it; the loop is
\* entered whenever it is reached, since frame numbers are not negative.
get_frame_rate(f) ==
    IF Len(f) = 0 THEN ScanEOF
    ELSE IF f[1].frame_nr # 0 THEN ScanAssert
    ELSE LET pos == SkipZeroFrames(f, 1)
         IN  IF pos = 0 THEN ScanEOF
             ELSE ScanFrames(f, pos, 0, f[1].seconds)

\* a file: the frame numbers fr; the headers before position k carry
\* second s0, those from k on carry s0 + d
MkFile(fr, s0, k, d) ==
    [j \in 1..Len(fr) |-> Header(fr[j], IF j < k THEN s0 ELSE s0 + d)]

Files ==
    {MkFile(fr, s0, k, d) :
        fr \in SeqsUpTo(0..MaxFrame, MaxHeaders),
        s0 \in 0..MaxS0, k \in 2..(MaxHeaders + 1), d \in 1..2}

InitScan ==
    /\ file \in Files
    /\ scan = ScanNone

IdleScan ==
    /\ file = <<>>
    /\ scan = [kind |-> "idle", value |-> 0, warned |-> FALSE]

\* the call get_frame_rate(fh, header_class)
GetFrameRate ==
    /\ scan.kind = "none"
    /\ scan' = get_frame_rate(file)
    /\ UNCHANGED file
    /\ UNCHANGED <<crcVars, bcdVars, payVars, codecVars>>

NextScan ==
    \/ GetFrameRate

(***************************************************************************)
(* Payload construction: payload.py, class VDIFPayload.                    *)
(***************************************************************************)
\* header.edv == 0xab marks a Mark5B payload
Mark5BEdv == 171

\* VDIFPayload._encoders / _decoders: keys 2, 4 and 8
VDIFKeys == {2, 4, 8}
\* Mark5BPayload._encoders / _decoders: registered under the same keys
Mark5BKeys == {2, 4, 8}

NoHeader == [present |-> FALSE, nchan |-> 0, bps |-> 0,
             complex_data |-> FALSE, edv |-> 0]
Headers ==
    [present : {TRUE}, nchan : 1..2, bps : {1, 2, 4, 8},
     complex_data : BOOLEAN, edv : {0, 1, Mark5BEdv}]

\* words handed to the constructor: who encoded them, at which bit depth
Words(by, bps) == [by |-> by, bps |-> bps]

PayError(e) ==
    [kind |-> "error", err |-> e, words |-> Words("none", 0), nchan |-> 0,
     bps |-> 0, complex_data |-> FALSE, decoders |-> "none", encoders |-> "none"]

\* VLBIPayloadBase.__init__ stores the words and the layout on the instance;
\* _decoders and _encoders are the instance's if __init__ set them, else
\* the class's
Payload(words, nchan, bps, complex_data, tables) ==
    [kind |-> "payload", err |-> "none", words |-> words, nchan |-> nchan,
     bps |-> bps, complex_data |-> complex_data,
     decoders |-> tables, encoders |-> tables]

\* VDIFPayload.__init__(words, header, nchan, bps, complex_data)
VDIFPayload_init(words, header, nchan, bps, complex_data) ==
    IF header.present
    THEN IF header.edv = Mark5BEdv
         THEN IF header.complex_data
              THEN PayError("VDIF/Mark5B payload cannot be complex.")
              ELSE Payload(words, header.nchan, header.bps,
                           header.complex_data, "Mark5B")
         ELSE Payload(words, header.nchan, header.bps,
                      header.complex_data, "VDIF")
    ELSE Payload(words, nchan, bps, complex_data, "VDIF")

\* VDIFPayload.fromdata(data, header, bps, edv); data is described by its
\* last dimension and by whether its dtype is complex; the edv keyword is
\* <<>> for None and <<v>> for the value v
VDIFPayload_fromdata(data, header, bps, edv) ==
    LET nchan == data.nchan
        complex_data == data.complex_data
        bps1 == IF header.present THEN header.bps ELSE bps
        edv1 == IF header.present THEN <<header.edv>> ELSE edv
        tables == IF edv1 = <<Mark5BEdv>> THEN "Mark5B" ELSE "VDIF"
        keys == IF edv1 = <<Mark5BEdv>> THEN Mark5BKeys ELSE VDIFKeys
    IN  IF header.present /\ header.nchan # nchan
        THEN PayError("Header is for {0} channels but data has {1}")
        ELSE IF header.present /\ header.complex_data # complex_data
        THEN PayError("Header is for {0} data but data is {1}")
        ELSE IF bps1 \notin keys
        THEN PayError("KeyError")
        ELSE VDIFPayload_init(Words(tables, bps1), header, nchan, bps1,
                              complex_data)

NoCall == [fn |-> "none", header |-> NoHeader, nchan |-> 0, bps |-> 0,
           complex_data |-> FALSE, edv |-> <<>>]

InitPayload ==
    /\ pay_call = NoCall
    /\ pay_out = PayError("none")

IdlePayload ==
    /\ pay_call = [NoCall EXCEPT !.fn = "idle"]
    /\ pay_out = PayError("idle")

\* VDIFPayload(words, header) or VDIFPayload(words, nchan=, bps=,
\* complex_data=), the words read from a file
Construct ==
    /\ pay_call.fn = "none"
    /\ \E header \in Headers \cup {NoHeader}, nchan \in 1..2,
          bps \in {1, 2, 4, 8}, complex_data \in BOOLEAN :
         /\ pay_call' = [fn |-> "init", header |-> header, nchan |-> nchan,
                         bps |-> bps, complex_data |-> complex_data,
                         edv |-> <<>>]
         /\ pay_out' = VDIFPayload_init(Words("file", bps), header, nchan,
                                        bps, complex_data)
    /\ UNCHANGED <<crcVars, bcdVars, scanVars, codecVars>>

\* VDIFPayload.fromdata(data, header, bps, edv)
FromData ==
    /\ pay_call.fn = "none"
    /\ \E header \in Headers \cup {NoHeader}, nchan \in 1..2,
          bps \in {1, 2, 4, 8}, complex_data \in BOOLEAN,
          edv \in {<<>>, <<0>>, <<Mark5BEdv>>} :
         /\ pay_call' = [fn |-> "fromdata", header |-> header,
                         nchan |-> nchan, bps |-> bps,
                         complex_data |-> complex_data, edv |-> edv]
         /\ pay_out' = VDIFPayload_fromdata(
                          [nchan |-> nchan, complex_data |-> complex_data],
                          header, bps, edv)
    /\ UNCHANGED <<crcVars, bcdVars, scanVars, codecVars>>

NextPayload ==
    \/ Construct
    \/ FromData

(***************************************************************************)
(* Sample codec tables: payload.py, init_luts, encode_2bit, encode_4bit.   *)
(***************************************************************************)
\* decoder_levels[n]: the level of each n-bit code, offset binary (all
\* zeros lowest, all ones highest, symmetric about zero); the levels are
\* written in units that keep them integers
decoder_levels(n) ==
    IF n = 1 THEN [c \in 0..1 |-> 2 * c - 1]
    ELSE IF n = 2 THEN [c \in 0..3 |-> 2 * c - 3]
    ELSE [c \in 0..15 |-> c - 8]

\* b >> i and b << i on uint8
ShiftRight(b, i) == b \div Pow(2, i)
ShiftLeft(b, i) == (b * Pow(2, i)) % 256

\* init_luts: entry b of the n-bit table is
\* decoder_levels[n][(b >> i) & (2^n - 1)] for i = 0, n, 2n, ...
Lut(n, b) ==
    [g \in 1..(8 \div n) |->
        decoder_levels(n)[BitAnd(ShiftRight(b, (g - 1) * n), Pow(2, n) - 1)]]

lut1bit == [b \in 0..255 |-> Lut(1, b)]
lut2bit == [b \in 0..255 |-> Lut(2, b)]
lut4bit == [b \in 0..255 |-> Lut(4, b)]

\* shift2bit = np.arange(0, 8, 2); shift04 = np.array([0, 4])
shift2bit == <<0, 2, 4, 6>>
shift04 == <<0, 4>>

RECURSIVE OrReduce(_)
OrReduce(s) ==
    IF Len(s) = 0 THEN 0 ELSE BitOr(s[1], OrReduce(SubSeq(s, 2, Len(s))))

\* encode_2bit on one row of four codes (bitvalues, what encode_2bit_base
\* returned): bitvalues <<= shift2bit; np.bitwise_or.reduce(bitvalues)
encode_2bit(bitvalues) ==
    OrReduce([g \in 1..4 |-> ShiftLeft(bitvalues[g], shift2bit[g])])

\* encode_4bit on one row of two codes: b <<= shift04; b[:, 0] | b[:, 1]
encode_4bit(b) ==
    BitOr(ShiftLeft(b[1], shift04[1]), ShiftLeft(b[2], shift04[2]))

CodecNone == [kind |-> "none", v |-> 0]
CodecKeyError == [kind |-> "KeyError", v |-> 0]

\* cls._encoders[bps] applied to the codes of one byte
EncodeWith(bps, codes) ==
    IF bps = 2 THEN [kind |-> "byte", v |-> encode_2bit(codes)]
    ELSE IF bps = 4 THEN [kind |-> "byte", v |-> encode_4bit(codes)]
    ELSE CodecKeyError

\* the table entry of a byte
TableEntry(bps, b) ==
    IF bps = 1 THEN lut1bit[b]
    ELSE IF bps = 2 THEN lut2bit[b]
    ELSE lut4bit[b]

TableDepths == {1, 2, 4}

InitCodec ==
    /\ cd_bps \in TableDepths
    /\ cd_codes \in [1..(8 \div cd_bps) -> 0..(Pow(2, cd_bps) - 1)]
    /\ cd_byte = CodecNone
    /\ cd_levels = <<>>

IdleCodec ==
    /\ cd_bps = 0
    /\ cd_codes = <<>>
    /\ cd_byte = [kind |-> "idle", v |-> 0]
    /\ cd_levels = <<>>

\* the codes are packed by the encoder registered for the bit depth
EncodeByte ==
    /\ cd_byte.kind = "none"
    /\ cd_byte' = EncodeWith(cd_bps, cd_codes)
    /\ UNCHANGED <<cd_bps, cd_codes, cd_levels>>
    /\ UNCHANGED <<crcVars, bcdVars, scanVars, payVars>>

\* the packed byte is looked up in the table of the bit depth
DecodeByte ==
    /\ cd_byte.kind = "byte"
    /\ cd_levels = <<>>
    /\ cd_levels' = TableEntry(cd_bps, cd_byte.v)
    /\ UNCHANGED <<cd_bps, cd_codes, cd_byte>>
    /\ UNCHANGED <<crcVars, bcdVars, scanVars, payVars>>

NextCodec ==
    \/ EncodeByte
    \/ DecodeByte

(***************************************************************************)
(* Specifications: one per subsystem.                                      *)
(***************************************************************************)
InitSpecCRC == InitCRC /\ IdleBCD /\ IdleScan /\ IdlePayload /\ IdleCodec
SpecCRC == InitSpecCRC /\ [][NextCRC]_vars

InitSpecBCD == IdleCRC /\ InitBCD /\ IdleScan /\ IdlePayload /\ IdleCodec
SpecBCD == InitSpecBCD /\ [][NextBCD]_vars

InitSpecScan == IdleCRC /\ IdleBCD /\ InitScan /\ IdlePayload /\ IdleCodec
SpecScan == InitSpecScan /\ [][NextScan]_vars

InitSpecPayload == IdleCRC /\ IdleBCD /\ IdleScan /\ InitPayload /\ IdleCodec
SpecPayload == InitSpecPayload /\ [][NextPayload]_vars

InitSpecCodec == IdleCRC /\ IdleBCD /\ IdleScan /\ IdlePayload /\ InitCodec
SpecCodec == InitSpecCodec /\ [][NextCodec]_vars

(***************************************************************************)
(* Properties of the CRC engine (SpecCRC).                                 *)
(***************************************************************************)
\* C1: whenever the caller has appended the CRC that the engine returned
\* for its stream, check on the concatenation returns true, for every
\* polynomial of degree >= 1 and for boolean and multi-track streams.
C1_SelfConsistency ==
    (op = "check" /\ prov = "appended" /\ CRC_len(pol_bin) >= 1) => ret.ok

C1_Witness ==
    /\ op = "check" /\ prov = "appended" /\ ret.ok
    /\ dtype = "uint"
    /\ polynomial = 6159
    /\ Len(heap.caller) = MaxData + CRC_len(pol_bin)
    /\ heap.caller[1] = 3 /\ heap.caller[2] = 2
    /\ ~AllZero(LastN(heap.caller, CRC_len(pol_bin)))

\* C2: for the polynomials 0x18005 and 0x180f, when a stream that check
\* accepted has exactly one bit flipped, check on it returns false.
C2_SingleBitDetected ==
    (op = "check" /\ prov = "flipped" /\ polynomial \in KnownPolys) => ~ret.ok

C2_Witness ==
    /\ op = "check" /\ prov = "flipped" /\ ~ret.ok
    /\ polynomial = 98309
    /\ dtype = "uint"
    /\ Len(heap.caller) = MaxData + CRC_len(pol_bin)

\* C3: a step that is a call of compute or of check leaves the caller's
\* stream, element for element, and the engine's polynomial as they were;
\* only the engine's own array is overwritten by the division.
C3_CallerDataUnchanged ==
    [][op' \in {"call", "check"} =>
          /\ heap'.caller = heap.caller
          /\ polynomial' = polynomial
          /\ pol_bin' = pol_bin]_vars

C3_Witness ==
    /\ op = "check"
    /\ Len(heap.caller) > CRC_len(pol_bin)
    /\ heap.work # heap.caller
    /\ ~AllZero(heap.caller)

(***************************************************************************)
(* Properties of the BCD codec (SpecBCD).                                  *)
(***************************************************************************)
\* the digits of v in base `from`, digit k weighted with to^k
RECURSIVE Reweigh(_, _, _)
Reweigh(v, from, to) ==
    IF v = 0 THEN 0 ELSE (v % from) + to * Reweigh(v \div from, from, to)

\* C4: for every integer v with 0 <= v < 10000, bcd_encode(v) carries the
\* decimal digit at position k as d * 16^k, bcd_decode reads the
\* hexadecimal digit at position k as d * 10^k, and decoding what
\* bcd_encode returned for v gives v back.
C4_RoundTrip ==
    (bcd_arg.kind = "int" /\ bcd_arg.v < 10000) =>
        /\ bcd_stage = "encoded" => bcd_val = BcdInt(Reweigh(bcd_arg.v, 10, 16))
        /\ bcd_stage = "roundtrip" =>
              /\ bcd_val = BcdInt(Reweigh(Reweigh(bcd_arg.v, 10, 16), 16, 10))
              /\ bcd_val = BcdInt(bcd_arg.v)

C4_Witness ==
    /\ bcd_stage = "roundtrip"
    /\ bcd_arg = BcdInt(9870)
    /\ bcd_val = BcdInt(9870)

\* some hexadecimal digit of v exceeds 9
BadNibble(v) == \E q \in 0..7 : (v \div Pow(16, q)) % 16 > 9

\* C5: bcd_decode raises the invalid-BCD error exactly when some nibble of
\* the input (of some element, for a batch) exceeds 9; the value the error
\* names is the input (an element with such a nibble, for a batch); an
\* error carries no result.
C5_DecodeValidation ==
    bcd_stage = "decoded" =>
        IF bcd_arg.kind = "int"
        THEN /\ (bcd_val.kind = "error") <=> BadNibble(bcd_arg.v)
             /\ bcd_val.kind = "error" => bcd_val.named = bcd_arg.v
             /\ bcd_val.kind # "error" => bcd_val.kind = "int"
        ELSE /\ (bcd_val.kind = "error")
                    <=> (\E k \in 1..Len(bcd_arg.v) : BadNibble(bcd_arg.v[k]))
             /\ bcd_val.kind = "error" =>
                    \E k \in 1..Len(bcd_arg.v) :
                        bcd_arg.v[k] = bcd_val.named /\ BadNibble(bcd_arg.v[k])
             /\ bcd_val.kind # "error" => bcd_val.kind = "array"

C5_Witness ==
    /\ bcd_stage = "decoded"
    /\ bcd_arg = BcdArray(<<4660, 419>>)
    /\ bcd_val = BcdError(419)

(***************************************************************************)
(* Properties of the frame-rate scan (SpecScan).                           *)
(***************************************************************************)
\* the file begins with frame numbers 0, 1, ..., n-1 within the first
\* header's second, followed by frame number 0 at that second plus d
RampThenRollover(f, n, d) ==
    /\ n >= 1 /\ Len(f) >= n + 1
    /\ \A j \in 1..n : f[j].frame_nr = j - 1 /\ f[j].seconds = f[1].seconds
    /\ f[n + 1].frame_nr = 0
    /\ f[n + 1].seconds = f[1].seconds + d

\* C6 as stated: for every N >= 1 the scan of such a file returns N, also
\* when the roll-over header is two seconds on, and then it warns.
C6_FrameRateFromOne ==
    \A n \in 1..MaxHeaders : \A d \in 1..2 :
        (scan.kind # "none" /\ RampThenRollover(file, n, d)) =>
            /\ scan.kind = "return"
            /\ scan.value = n
            /\ d = 2 => scan.warned

\* C6, amended: the same for every N >= 2.
C6_FrameRateFromTwo ==
    \A n \in 2..MaxHeaders : \A d \in 1..2 :
        (scan.kind # "none" /\ RampThenRollover(file, n, d)) =>
            /\ scan.kind = "return"
            /\ scan.value = n
            /\ d = 2 => scan.warned

C6_Witness ==
    /\ RampThenRollover(file, 3, 2)
    /\ scan = [kind |-> "return", value |-> 3, warned |-> TRUE]

\* the file begins with z >= 1 headers of frame number 0, then p >= 1
\* headers of positive frame number, then a header of frame number 0
ZerosPositivesZero(f, z, p) ==
    /\ z >= 1 /\ p >= 1 /\ Len(f) >= z + p + 1
    /\ \A j \in 1..z : f[j].frame_nr = 0
    /\ \A j \in (z + 1)..(z + p) : f[j].frame_nr > 0
    /\ f[z + p + 1].frame_nr = 0

MaxFrameNr(f, n) ==
    CHOOSE m \in {f[j].frame_nr : j \in 1..n} :
        \A j \in 1..n : f[j].frame_nr <= m

\* C10: the scan of such a file returns the largest frame number among the
\* headers before the roll-over header, plus one.
C10_TracksMaximum ==
    \A z \in 1..MaxHeaders : \A p \in 1..MaxHeaders :
        (scan.kind # "none" /\ ZerosPositivesZero(file, z, p)) =>
            /\ scan.kind = "return"
            /\ scan.value = MaxFrameNr(file, z + p) + 1

(***************************************************************************)
(* Properties of payload construction (SpecPayload).                       *)
(***************************************************************************)
\* the call is made under the Mark5B variant: the header's edv is 0xab,
\* or there is no header and fromdata's edv keyword is 0xab
UnderMark5B(call) ==
    IF call.header.present THEN call.header.edv = Mark5BEdv
    ELSE call.fn = "fromdata" /\ call.edv = <<Mark5BEdv>>

\* the arguments of the call agree with each other and name a registered
\* bit depth, so that nothing else can fail
Consistent(call) ==
    /\ call.fn \in {"init", "fromdata"}
    /\ (IF call.header.present THEN call.header.bps ELSE call.bps) \in VDIFKeys
    /\ (call.fn = "fromdata" /\ call.header.present) =>
          /\ call.header.nchan = call.nchan
          /\ call.header.complex_data = call.complex_data

IsComplex(call) ==
    IF call.header.present THEN call.header.complex_data ELSE call.complex_data

\* C7: a payload made under the Mark5B variant decodes with the Mark5B
\* tables, and the words fromdata gave it were encoded with the Mark5B
\* tables: encoder and decoder come from the same table set.
C7_DispatchBothDirections ==
    (Consistent(pay_call) /\ UnderMark5B(pay_call) /\ pay_out.kind = "payload") =>
        /\ pay_out.decoders = "Mark5B"
        /\ pay_call.fn = "fromdata" => pay_out.words.by = pay_out.decoders

\* C8: every attempt to make a payload of complex data under the Mark5B
\* variant fails with the incompatible-format error and returns no payload.
C8_ComplexRejected ==
    (Consistent(pay_call) /\ UnderMark5B(pay_call) /\ IsComplex(pay_call)) =>
        /\ pay_out.kind = "error"
        /\ pay_out.err = "VDIF/Mark5B payload cannot be complex."

(***************************************************************************)
(* Properties of the sample codec tables (SpecCodec).                      *)
(***************************************************************************)
RECURSIVE PackedSum(_, _, _)
PackedSum(codes, n, g) ==
    IF g > Len(codes) THEN 0
    ELSE codes[g] * Pow(2, (g - 1) * n) + PackedSum(codes, n, g + 1)

\* C9: for each of the depths 1, 2 and 4 the encoder puts code i at bit
\* i*n of the byte, and the table entry of that byte lists the levels of
\* the same codes in the same order.
C9_BitOrderPreserved ==
    /\ cd_byte.kind \notin {"none", "idle"} =>
          /\ cd_byte.kind = "byte"
          /\ cd_byte.v = PackedSum(cd_codes, cd_bps, 1)
    /\ cd_levels # <<>> =>
          cd_levels = [g \in 1..Len(cd_codes) |-> decoder_levels(cd_bps)[cd_codes[g]]]

====
